---- MODULE Spec2Model ----
(***************************************************************************)
(* Model of the modulo_three package: the FiniteMachine 5-tuple            *)
(* (machine.py), the builders (builder.py) and the modThree facade with    *)
(* its cached modulus-3 machine (simple_facade.py).                        *)
(*                                                                         *)
(* Python containers are objects on a heap: `heap' is the sequence of all  *)
(* live container objects and a reference is an index into it, so that     *)
(* "the same set" and "an equal copy of the set" are different things.     *)
(* A set is a TLA+ set; a dict is the sequence of its items in insertion   *)
(* order, each item a record [state, symbol, next] for the entry           *)
(* (state, symbol): next, with no key occurring twice.                     *)
(***************************************************************************)
EXTENDS Integers, Sequences, FiniteSets, TLC

\* ---------------------------------------------------------------- bounds
\* States a caller may name are 0..MaxState.
MaxState == 1
\* Longest input sequence given to run.
MaxInput == 3
\* Longest digit string given to a binary-modulus machine.
MaxBits == 4
\* Largest modulus given to the binary-modulus builders.
MaxMod == 4
\* Number of modThree calls and of cache resets in one behaviour.
MaxCalls == 3
MaxResets == 1

StateU == 0..MaxState
\* Symbols a caller may put in Sigma or in a delta key.
SymbolU == {"0", "1"}
\* Symbols an input sequence may hold: "2" is in no alphabet.
InputSymbolU == {"0", "1", "2"}
\* A caller's transition table holds at most one entry per symbol of SymbolU:
\* enough for the total table of one state over both symbols, or of two
\* states over one symbol.
MaxDelta == Cardinality(SymbolU)

VARIABLES
    heap,        \* the container objects, by reference
    args,        \* the caller's Q, Sigma, F, delta (references) and q0
    machine,     \* the constructed FiniteMachine (references), or NoMachine
    built,       \* the machine's field values when construction returned
    error,       \* the error raised by the last construction, or NoError
    mutated,     \* the caller's containers mutated since the construction
    mod,         \* the argument given to build_binary_mod_machine
    created,     \* the spec's field values when DeterministicMachineSpec returned
    pc,          \* position of the run in progress
    input,       \* the sequence run iterates over
    index,       \* run's enumerate index
    current,     \* run's current_state
    outcome,     \* what run returned or raised
    op,          \* the method called on the machine: "run" or "accepts"
    accepted,    \* the boolean accepts returned
    lookups,     \* the lookups self.delta[...] made by the run in progress
    previous,    \* what the call before returned or raised, in RunAgain, ReturnThen
    cache,       \* the result lru_cache holds for _get_mod_three_machine
    instances,   \* the machines built by _get_mod_three_machine, in order
    tpc,         \* each caller's position in modThree
    targ,        \* each caller's argument of modThree
    tmachine,    \* each caller's local `machine': an index of instances
    tresult,     \* what each caller's modThree returned or raised
    calls,       \* modThree calls begun
    resets,      \* cache resets made
    epochPassed, \* calls that passed _require_str since the last reset
    epochBuilds, \* builds executed since the last reset
    cpc,         \* position of the command-line process in main
    argv,        \* the parsed arguments: the interactive flag and input_value
    stdout,      \* what the process wrote to standard output, in order
    stderr,      \* what the process wrote to standard error, in order
    exitCode,    \* the exit status of the process, -1 while it runs
    linesRead,   \* the lines input() has returned
    lastRead     \* what the last input() gave: a line, or the end of input

\* the caller of FiniteMachine and the machine
machineVars == <<args, machine, built, error, mutated, mod, created>>
\* the locals and the result of run
runVars == <<pc, input, index, current, outcome, op, accepted, lookups,
             previous>>
\* the facade: its cache and its callers
facadeVars == <<cache, instances, tpc, targ, tmachine, tresult, calls, resets,
                epochPassed, epochBuilds>>

\* the command-line process
cliVars == <<cpc, argv, stdout, stderr, exitCode, linesRead, lastRead>>

vars == <<heap, machineVars, runVars, facadeVars, cliVars>>

\* ---------------------------------------------------------------- errors
\* An exception: its class, its message (without the interpolated values) and
\* the values interpolated into the message.
NoError == [type |-> "", kind |-> "", info |-> <<>>]
ValueError(kind, info) == [type |-> "ValueError", kind |-> kind, info |-> info]
TypeError(kind) == [type |-> "TypeError", kind |-> kind, info |-> <<>>]

\* ----------------------------------------------------------------- dicts
\* (state, symbol) in delta
DeltaHas(delta, state, symbol) ==
    \E i \in 1..Len(delta) : delta[i].state = state /\ delta[i].symbol = symbol

\* delta[(state, symbol)], defined when the key is present
DeltaGet(delta, state, symbol) ==
    LET i == CHOOSE i \in 1..Len(delta) :
                 delta[i].state = state /\ delta[i].symbol = symbol
    IN delta[i].next

\* delta[(state, symbol)] = next : an existing key keeps its position
DeltaSet(delta, state, symbol, next) ==
    IF DeltaHas(delta, state, symbol)
    THEN [i \in 1..Len(delta) |->
             IF delta[i].state = state /\ delta[i].symbol = symbol
             THEN [state |-> state, symbol |-> symbol, next |-> next]
             ELSE delta[i]]
    ELSE Append(delta, [state |-> state, symbol |-> symbol, next |-> next])

\* del delta[(state, symbol)]
DeltaDel(delta, state, symbol) ==
    SelectSeq(delta, LAMBDA e : ~(e.state = state /\ e.symbol = symbol))

\* ------------------------------------------------------------ FiniteMachine
NoMachine == [Q |-> 0, Sigma |-> 0, q0 |-> 0, F |-> 0, delta |-> 0]
NoFields == [Q |-> {}, Sigma |-> {}, q0 |-> 0, F |-> {}, delta |-> <<>>]

\* The values of a machine's (or a caller's) five fields.
Fields(h, m) ==
    [Q |-> h[m.Q], Sigma |-> h[m.Sigma], q0 |-> m.q0, F |-> h[m.F],
     delta |-> h[m.delta]]

\* ItemError without its last check: a value outside Q passes.
ItemErrorKeysOnly(e, Q, Sigma) ==
    IF e.state \notin Q
    THEN ValueError("delta key state must be in Q", <<e.state, e.symbol>>)
    ELSE IF e.symbol \notin Sigma
    THEN ValueError("delta key symbol must be in Sigma", <<e.state, e.symbol>>)
    ELSE NoError

\* One pass of the loop over delta.items(): the checks made on one item.
ItemError(e, Q, Sigma) ==
    IF e.state \notin Q
    THEN ValueError("delta key state must be in Q", <<e.state, e.symbol>>)
    ELSE IF e.symbol \notin Sigma
    THEN ValueError("delta key symbol must be in Sigma", <<e.state, e.symbol>>)
    ELSE IF e.next \notin Q
    THEN ValueError("delta value must be in Q", <<e.state, e.symbol, e.next>>)
    ELSE NoError

\* Three loops instead of one: every key's state, then every key's symbol,
\* then every value.
ItemsErrorByKind(delta, i, Q, Sigma) ==
    LET from == {j \in i..Len(delta) : TRUE}
        badState == {j \in from : delta[j].state \notin Q}
        badSymbol == {j \in from : delta[j].symbol \notin Sigma}
        badNext == {j \in from : delta[j].next \notin Q}
        First(S) == CHOOSE j \in S : \A k \in S : j <= k
    IN IF badState # {}
       THEN ValueError("delta key state must be in Q",
                       <<delta[First(badState)].state,
                         delta[First(badState)].symbol>>)
       ELSE IF badSymbol # {}
       THEN ValueError("delta key symbol must be in Sigma",
                       <<delta[First(badSymbol)].state,
                         delta[First(badSymbol)].symbol>>)
       ELSE IF badNext # {}
       THEN ValueError("delta value must be in Q",
                       <<delta[First(badNext)].state,
                         delta[First(badNext)].symbol,
                         delta[First(badNext)].next>>)
       ELSE NoError

\* The loop over delta.items(), from item i on: it raises at the first item
\* that fails a check, in the dict's iteration order.
RECURSIVE ItemsError(_, _, _, _)
ItemsError(delta, i, Q, Sigma) ==
    IF i > Len(delta) THEN NoError
    ELSE IF ItemError(delta[i], Q, Sigma).kind # ""
    THEN ItemError(delta[i], Q, Sigma)
    ELSE ItemsError(delta, i + 1, Q, Sigma)

\* missing[:10] shows at most this many pairs.
MissingShown == 10

\* The pairs of Q x Sigma with no key in delta.
Missing(f) ==
    {p \in f.Q \X f.Sigma : ~DeltaHas(f.delta, p[1], p[2])}

\* The orders in which an iteration may go over the set S.
IterationOrders(S) ==
    {o \in [1..Cardinality(S) -> S] :
        \A i, j \in 1..Cardinality(S) : o[i] = o[j] => i = j}

\* The list `missing' of the cardinality check, when the sets Q and Sigma are
\* iterated in the orders qo and so: for state in Q, for symbol in Sigma, the
\* pairs that are no key of delta.
MissingList(f, qo, so) ==
    LET pairs == [k \in 1..(Len(qo) * Len(so)) |->
                     <<qo[((k - 1) \div Len(so)) + 1],
                       so[((k - 1) % Len(so)) + 1]>>]
        IsMissing(p) == ~DeltaHas(f.delta, p[1], p[2])
    IN SelectSeq(pairs, IsMissing)

\* missing[:10], the pairs the message shows
MissingShownList(f, qo, so) ==
    LET missing == MissingList(f, qo, so)
    IN SubSeq(missing, 1, IF Len(missing) > MissingShown THEN MissingShown
                          ELSE Len(missing))

\* The message ends with " (truncated)": len(missing) > 10
MissingTruncated(f, qo, so) == Len(MissingList(f, qo, so)) > MissingShown

\* No cardinality check at all.
TotalityUnchecked(f) == NoError

\* The cardinality check with len(Q) + len(Sigma) as the expected count.
TotalityErrorSum(f) ==
    LET expected_count == Cardinality(f.Q) + Cardinality(f.Sigma)
    IN IF Len(f.delta) # expected_count
       THEN ValueError("delta must be total over QxSigma",
                [expected |-> expected_count,
                 actual |-> Len(f.delta),
                 missing |-> Missing(f),
                 truncated |-> Cardinality(Missing(f)) > MissingShown,
                 details |-> IF Missing(f) # {} THEN "missing"
                             ELSE "delta size mismatch"])
       ELSE NoError

\* The cardinality check that ends the validation.
TotalityError(f) ==
    LET expected_count == Cardinality(f.Q) * Cardinality(f.Sigma)
    IN IF Len(f.delta) # expected_count
       THEN ValueError("delta must be total over QxSigma",
                [expected |-> expected_count,
                 actual |-> Len(f.delta),
                 missing |-> Missing(f),
                 truncated |-> Cardinality(Missing(f)) > MissingShown,
                 details |-> IF Missing(f) # {} THEN "missing"
                             ELSE "delta size mismatch"])
       ELSE NoError

\* The validation with the cardinality check before the checks of the items.
ValidateTotalityBeforeItems(f) ==
    IF f.Q = {} THEN ValueError("Q must be non-empty", <<>>)
    ELSE IF f.Sigma = {} THEN ValueError("Sigma must be non-empty", <<>>)
    ELSE IF f.q0 \notin f.Q
    THEN ValueError("q0 must be a member of Q", <<f.q0>>)
    ELSE IF ~(f.F \subseteq f.Q)
    THEN ValueError("F must be a subset of Q", <<f.F \ f.Q>>)
    ELSE IF TotalityError(f).kind # ""
    THEN TotalityError(f)
    ELSE ItemsError(f.delta, 1, f.Q, f.Sigma)

\* The validation with the transition table checked before F.
ValidateDeltaBeforeF(f) ==
    IF f.Q = {} THEN ValueError("Q must be non-empty", <<>>)
    ELSE IF f.Sigma = {} THEN ValueError("Sigma must be non-empty", <<>>)
    ELSE IF f.q0 \notin f.Q
    THEN ValueError("q0 must be a member of Q", <<f.q0>>)
    ELSE IF ItemsError(f.delta, 1, f.Q, f.Sigma).kind # ""
    THEN ItemsError(f.delta, 1, f.Q, f.Sigma)
    ELSE IF ~(f.F \subseteq f.Q)
    THEN ValueError("F must be a subset of Q", <<f.F \ f.Q>>)
    ELSE TotalityError(f)

\* _validate_definition_total on the field values f: the error it raises,
\* or NoError when it returns.
ValidateDefinitionTotal(f) ==
    IF f.Q = {} THEN ValueError("Q must be non-empty", <<>>)
    ELSE IF f.Sigma = {} THEN ValueError("Sigma must be non-empty", <<>>)
    ELSE IF f.q0 \notin f.Q
    THEN ValueError("q0 must be a member of Q", <<f.q0>>)
    ELSE IF ~(f.F \subseteq f.Q)
    THEN ValueError("F must be a subset of Q", <<f.F \ f.Q>>)
    ELSE IF ItemsError(f.delta, 1, f.Q, f.Sigma).kind # ""
    THEN ItemsError(f.delta, 1, f.Q, f.Sigma)
    ELSE TotalityError(f)

\* No copy: the reference itself.
CopyAlias(h, ref) == [heap |-> h, ref |-> ref]

\* set(x) and dict(x): a new object holding the contents of x.
Copy(h, ref) == [heap |-> Append(h, h[ref]), ref |-> Len(h) + 1]

\* __post_init__ on the object `self' whose fields the generated __init__
\* has just bound to the arguments: the four copies, then the validation.
PostInit(h, self) ==
    LET c1 == Copy(h, self.Q)
        c2 == Copy(c1.heap, self.Sigma)
        c3 == Copy(c2.heap, self.F)
        c4 == Copy(c3.heap, self.delta)
        me == [Q |-> c1.ref, Sigma |-> c2.ref, q0 |-> self.q0, F |-> c3.ref,
               delta |-> c4.ref]
    IN [heap |-> c4.heap, self |-> me,
        error |-> ValidateDefinitionTotal(Fields(c4.heap, me))]

\* FiniteMachine(Q, Sigma, q0, F, delta)
FiniteMachineNew(h, Q, Sigma, q0, F, delta) ==
    PostInit(h, [Q |-> Q, Sigma |-> Sigma, q0 |-> q0, F |-> F, delta |-> delta])

\* -------------------------------------------------------------------- run
\* How a call ends: kind is "returned" or the class of the exception raised,
\* msg the exception's message without the values interpolated into it.
Outcome(kind, msg, state, i, symbol) ==
    [kind |-> kind, msg |-> msg, state |-> state, index |-> i,
     symbol |-> symbol]
NoOutcome == Outcome("", "", 0, 0, "")
\* return current_state
Returned(state) == Outcome("returned", "", state, 0, "")
\* ValueError(f"invalid symbol at index {index}: {symbol!r}")
InvalidSymbol(i, symbol) ==
    Outcome("ValueError", "invalid symbol at index", 0, i, symbol)
\* the KeyError of self.delta[(current_state, symbol)] on a missing key
KeyError(state, symbol) == Outcome("KeyError", "", state, 0, symbol)
\* the loop goes on to the next symbol, in the state `state'
Continue(state) == Outcome("continue", "", state, 0, "")

\* The loop body with enumerate counting from 1.
LoopBodyFromOne(f, state, i, symbol) ==
    IF symbol \notin f.Sigma THEN InvalidSymbol(i + 1, symbol)
    ELSE IF ~DeltaHas(f.delta, state, symbol) THEN KeyError(state, symbol)
    ELSE Continue(DeltaGet(f.delta, state, symbol))

\* The loop body looking every symbol up from q0: self.delta[(self.q0, symbol)].
LoopBodyFromStart(f, state, i, symbol) ==
    IF symbol \notin f.Sigma THEN InvalidSymbol(i, symbol)
    ELSE IF ~DeltaHas(f.delta, f.q0, symbol) THEN KeyError(f.q0, symbol)
    ELSE Continue(DeltaGet(f.delta, f.q0, symbol))

\* The body of run's loop for the symbol at (zero-based) index i: the membership
\* test, then the lookup.
LoopBody(f, state, i, symbol) ==
    IF symbol \notin f.Sigma THEN InvalidSymbol(i, symbol)
    ELSE IF ~DeltaHas(f.delta, state, symbol) THEN KeyError(state, symbol)
    ELSE Continue(DeltaGet(f.delta, state, symbol))

\* run's loop from index i on, in the state `state'.
RECURSIVE RunFrom(_, _, _, _)
RunFrom(f, state, i, x) ==
    IF i >= Len(x) THEN Returned(state)
    ELSE IF LoopBody(f, state, i, x[i + 1]).kind # "continue"
    THEN LoopBody(f, state, i, x[i + 1])
    ELSE RunFrom(f, LoopBody(f, state, i, x[i + 1]).state, i + 1, x)

\* machine.run(x) as a function of the machine's fields and the input
Run(f, x) == RunFrom(f, f.q0, 0, x)

\* -------------------------------------------------------------- the caller
DictEntry == [state : StateU, symbol : SymbolU, next : StateU]

\* Python dicts of at most MaxDelta entries: no key twice.
Dicts ==
    {d \in UNION {[1..n -> DictEntry] : n \in 0..MaxDelta} :
        \A i, j \in 1..Len(d) :
            (d[i].state = d[j].state /\ d[i].symbol = d[j].symbol) => i = j}

NoMod == [type |-> "none", value |-> 0]

\* The callers of modThree.
Threads == {1, 2}

\* A value given to modThree: a str, as the sequence of its characters, or an
\* object of another type.
StrValue(chars) == [type |-> "str", chars |-> chars]
IntValue == [type |-> "int", chars |-> <<>>]

\* The module is just imported: nothing cached, no call in progress.
FacadeIdle ==
    /\ cache = 0
    /\ instances = <<>>
    /\ tpc = [t \in Threads |-> "idle"]
    /\ targ = [t \in Threads |-> StrValue(<<>>)]
    /\ tmachine = [t \in Threads |-> 0]
    /\ tresult = [t \in Threads |-> NoOutcome]
    /\ calls = 0
    /\ resets = 0
    /\ epochPassed = 0
    /\ epochBuilds = 0

\* An argument that is absent: input_value is None.
NoneValue == [type |-> "none", chars |-> <<>>]

\* What input() gave: nothing yet, a line without its newline, or EOFError.
NothingRead == [kind |-> "none", chars |-> <<>>]
LineRead(chars) == [kind |-> "line", chars |-> chars]
EndOfInput == [kind |-> "eof", chars |-> <<>>]

\* No command-line process is running.
CliIdle ==
    /\ cpc = "idle"
    /\ argv = [interactive |-> FALSE, input_value |-> NoneValue]
    /\ stdout = <<>>
    /\ stderr = <<>>
    /\ exitCode = -1
    /\ linesRead = 0
    /\ lastRead = NothingRead

RunIdle ==
    /\ pc = "idle"
    /\ input = <<>>
    /\ index = 0
    /\ current = 0
    /\ outcome = NoOutcome
    /\ op = ""
    /\ accepted = FALSE
    /\ lookups = 0
    /\ previous = NoOutcome

\* The caller holds any definition, well formed or not; nothing is built yet.
Init ==
    /\ \E Q \in SUBSET StateU, Sigma \in SUBSET SymbolU, F \in SUBSET StateU,
          d \in Dicts :
          heap = <<Q, Sigma, F, d>>
    /\ \E q0 \in StateU :
          args = [Q |-> 1, Sigma |-> 2, q0 |-> q0, F |-> 3, delta |-> 4]
    /\ machine = NoMachine
    /\ built = NoFields
    /\ error = NoError
    /\ mutated = {}
    /\ mod = NoMod
    /\ created = NoFields
    /\ RunIdle
    /\ FacadeIdle
    /\ CliIdle

\* machine = FiniteMachine(Q, Sigma, q0, F, delta) on the caller's containers
Construct ==
    /\ machine = NoMachine
    /\ error.kind = ""
    /\ LET r == FiniteMachineNew(heap, args.Q, args.Sigma, args.q0, args.F,
                                 args.delta)
       IN IF r.error.kind = ""
          THEN /\ heap' = r.heap
               /\ machine' = r.self
               /\ built' = Fields(r.heap, r.self)
               /\ error' = NoError
          ELSE /\ heap' = heap
               /\ machine' = NoMachine
               /\ built' = NoFields
               /\ error' = r.error
    /\ UNCHANGED <<cliVars, args, mutated, mod, created,
                 runVars, facadeVars>>

Update(h, ref, value) == [h EXCEPT ![ref] = value]

\* One mutation of the caller's container `name', leaving the heap h. Each
\* container is mutated once, and a call that changes nothing is left out.
Mutated(name, h) ==
    /\ machine # NoMachine
    /\ name \notin mutated
    /\ h # heap
    /\ heap' = h
    /\ mutated' = mutated \cup {name}
    /\ UNCHANGED <<cliVars, args, machine, built, error, mod, created,
                 runVars, facadeVars>>

\* Q.add(s), Q.discard(s) on the caller's set of states
MutateQ ==
    \E s \in StateU :
        \/ Mutated("Q", Update(heap, args.Q, heap[args.Q] \cup {s}))
        \/ Mutated("Q", Update(heap, args.Q, heap[args.Q] \ {s}))

\* Sigma.add(a), Sigma.discard(a) on the caller's alphabet
MutateSigma ==
    \E a \in SymbolU :
        \/ Mutated("Sigma", Update(heap, args.Sigma, heap[args.Sigma] \cup {a}))
        \/ Mutated("Sigma", Update(heap, args.Sigma, heap[args.Sigma] \ {a}))

\* F.add(s), F.discard(s) on the caller's accepting states
MutateF ==
    \E s \in StateU :
        \/ Mutated("F", Update(heap, args.F, heap[args.F] \cup {s}))
        \/ Mutated("F", Update(heap, args.F, heap[args.F] \ {s}))

\* delta[(s, a)] = t and del delta[(s, a)] on the caller's table
MutateDelta ==
    \E s \in StateU, a \in SymbolU :
        \/ \E t \in StateU :
               /\ Len(DeltaSet(heap[args.delta], s, a, t)) <= MaxDelta + 1
               /\ Mutated("delta", Update(heap, args.delta,
                                  DeltaSet(heap[args.delta], s, a, t)))
        \/ /\ DeltaHas(heap[args.delta], s, a)
           /\ Mutated("delta", Update(heap, args.delta,
                                      DeltaDel(heap[args.delta], s, a)))

NextConstruct ==
    \/ Construct
    \/ MutateQ
    \/ MutateSigma
    \/ MutateF
    \/ MutateDelta

\* Construction from the caller's containers, then the caller mutating them.
SpecConstruct == Init /\ [][NextConstruct]_vars

\* ------------------------------------------------------- run, step by step
Inputs == UNION {[1..n -> InputSymbolU] : n \in 0..MaxInput}

\* current_state = 0, whatever q0 is.
RunInitialStateZero(self) == 0

\* current_state = self.q0
RunInitialState(self) == self.q0

\* The method `method' of the machine is called with some x of S, and run
\* begins: current_state = self.q0
MethodStartOn(method, S) ==
    /\ machine # NoMachine
    /\ pc \in {"idle", "done"}
    /\ \E x \in S : input' = x
    /\ index' = 0
    /\ current' = RunInitialState(machine)
    /\ outcome' = NoOutcome
    /\ op' = method
    /\ accepted' = FALSE
    /\ lookups' = 0
    /\ pc' = "loop"
    /\ UNCHANGED <<cliVars, heap, machineVars, facadeVars, previous>>

\* machine.run(x) is called with some x of S
RunStartOn(S) == MethodStartOn("run", S)

RunStart == RunStartOn(Inputs)

\* machine.accepts(x) is called: it calls self.run(x)
AcceptsStart == MethodStartOn("accepts", Inputs)

\* The loop body taking the transition out of the table: self.delta.pop(key).
LoopBodyWritesPop(h, self, state, symbol) ==
    IF symbol \in h[self.Sigma] /\ DeltaHas(h[self.delta], state, symbol)
    THEN Update(h, self.delta, DeltaDel(h[self.delta], state, symbol))
    ELSE h

\* The loop body adding a symbol it rejects to the alphabet:
\* self.Sigma.add(symbol) before the raise.
LoopBodyWritesLearn(h, self, state, symbol) ==
    Update(h, self.Sigma, h[self.Sigma] \cup {symbol})

\* The objects after one iteration of the loop of run: the body tests
\* membership in self.Sigma, reads self.delta[...] and assigns the local
\* current_state only, so no object changes.
LoopBodyWrites(h, self, state, symbol) == h

\* one iteration of the loop of run
RunStep ==
    /\ pc = "loop"
    /\ index < Len(input)
    /\ LET r == LoopBody(Fields(heap, machine), current, index,
                         input[index + 1])
       IN /\ IF r.kind = "continue"
             THEN /\ current' = r.state
                  /\ index' = index + 1
                  /\ UNCHANGED <<pc, outcome>>
             ELSE /\ outcome' = r
                  /\ pc' = "done"
                  /\ UNCHANGED <<current, index>>
          /\ lookups' = IF r.kind = "ValueError" THEN lookups ELSE lookups + 1
    /\ heap' = LoopBodyWrites(heap, machine, current, input[index + 1])
    /\ UNCHANGED <<cliVars, machineVars, facadeVars, input, op, accepted,
                   previous>>

\* the input is exhausted: return current_state
RunReturn ==
    /\ pc = "loop"
    /\ op = "run"
    /\ index = Len(input)
    /\ outcome' = Returned(current)
    /\ pc' = "done"
    /\ UNCHANGED <<cliVars, heap, machineVars, facadeVars, input, index, current, op,
                   accepted, lookups, previous>>

\* Every state of Q counts as accepting.
AcceptsResultInQ(f, state) == state \in f.Q

\* self.run(input_symbols) in self.F, for the state run returned
AcceptsResult(f, state) == state \in f.F

\* the input is exhausted: run returns current_state to accepts, which
\* returns whether it is in F
AcceptsReturn ==
    /\ pc = "loop"
    /\ op = "accepts"
    /\ index = Len(input)
    /\ outcome' = Returned(0)
    /\ accepted' = AcceptsResult(Fields(heap, machine), current)
    /\ pc' = "done"
    /\ UNCHANGED <<cliVars, heap, machineVars, facadeVars, input, index, current, op,
                   lookups, previous>>

NextRun ==
    \/ Construct
    \/ RunStart
    \/ RunStep
    \/ RunReturn

\* Construction from the caller's containers, then runs of the machine.
SpecRun == Init /\ [][NextRun]_vars

\* The longest input of a run that other runs precede or follow.
MaxRerun == 2

RerunInputs == UNION {[1..n -> InputSymbolU] : n \in 0..MaxRerun}

\* The first call of run on the machine.
RunFirst ==
    /\ pc = "idle"
    /\ RunStartOn(RerunInputs)

\* machine.run(x) is called after an earlier call returned or raised; run
\* begins as for a first call: current_state = self.q0
RunAgain ==
    /\ machine # NoMachine
    /\ pc = "done"
    /\ \E x \in RerunInputs : input' = x
    /\ index' = 0
    /\ current' = RunInitialState(machine)
    /\ outcome' = NoOutcome
    /\ op' = "run"
    /\ accepted' = FALSE
    /\ lookups' = 0
    /\ pc' = "loop"
    /\ previous' = outcome
    /\ UNCHANGED <<cliVars, heap, machineVars, facadeVars>>

NextRerun ==
    \/ Construct
    \/ RunFirst
    \/ RunAgain
    \/ RunStep
    \/ RunReturn

\* Construction from the caller's containers, then one run of the machine
\* after another.
SpecRerun == Init /\ [][NextRerun]_vars

NextAccepts ==
    \/ Construct
    \/ RunStart
    \/ AcceptsStart
    \/ RunStep
    \/ RunReturn
    \/ AcceptsReturn

\* Construction from the caller's containers, then calls of run and accepts.
SpecAccepts == Init /\ [][NextAccepts]_vars

\* The methods the class FiniteMachine defines besides its validation.
Methods == {"run", "accepts"}

\* AttributeError("'FiniteMachine' object has no attribute ..."): the lookup of
\* a name the class, declared with slots, does not define
AttributeError(name) == Outcome("AttributeError", name, 0, 0, "")

\* machine.step(state, symbol) is called with a state of Q and any symbol: the
\* attribute lookup comes first, and the class defines no step.
StepCall ==
    /\ machine # NoMachine
    /\ pc \in {"idle", "done"}
    /\ "step" \notin Methods
    /\ \E state \in Fields(heap, machine).Q, symbol \in InputSymbolU :
          /\ current' = state
          /\ input' = <<symbol>>
    /\ index' = 0
    /\ op' = "step"
    /\ accepted' = FALSE
    /\ lookups' = 0
    /\ outcome' = AttributeError("step")
    /\ pc' = "done"
    /\ UNCHANGED <<cliVars, heap, machineVars, facadeVars, previous>>

NextStep ==
    \/ Construct
    \/ StepCall

\* Construction from the caller's containers, then calls of step.
SpecStep == Init /\ [][NextStep]_vars

\* --------------------------------------------------------------- builders
NoSpec == [Q |-> 0, Sigma |-> 0, q0 |-> 0, F |-> 0, delta |-> 0]

\* from_spec with every state of the spec accepting: F = set(spec.Q).
FromSpecAllAccepting(h, spec) ==
    LET c1 == Copy(h, spec.Q)
        c2 == Copy(c1.heap, spec.Sigma)
        c3 == Copy(c2.heap, spec.Q)
        c4 == Copy(c3.heap, spec.delta)
    IN FiniteMachineNew(c4.heap, c1.ref, c2.ref, spec.q0, c3.ref, c4.ref)

\* DeterministicTableMachineBuilder.from_spec(spec): copies of the spec's
\* containers are the arguments of FiniteMachine.
FromSpec(h, spec) ==
    LET c1 == Copy(h, spec.Q)
        c2 == Copy(c1.heap, spec.Sigma)
        c3 == Copy(c2.heap, spec.F)
        c4 == Copy(c3.heap, spec.delta)
    IN FiniteMachineNew(c4.heap, c1.ref, c2.ref, spec.q0, c3.ref, c4.ref)

\* isinstance(mod, bool)
IsInstanceBool(m) == m.type = "bool"

\* isinstance(mod, int): bool is a subclass of int
IsInstanceInt(m) == m.type \in {"int", "bool"}

\* _validate_mod without the test for bool.
ValidateModNoBoolTest(m) ==
    IF ~IsInstanceInt(m) THEN TypeError("mod must be int")
    ELSE IF m.value < 1 THEN ValueError("mod must be >= 1", <<>>)
    ELSE NoError

\* _validate_mod(mod)
ValidateMod(m) ==
    IF IsInstanceBool(m) \/ ~IsInstanceInt(m) THEN TypeError("mod must be int")
    ELSE IF m.value < 1 THEN ValueError("mod must be >= 1", <<>>)
    ELSE NoError

\* int(symbol) for a one-digit string
IntOfSymbol(symbol) ==
    CASE symbol = "0" -> 0
      [] symbol = "1" -> 1
      [] symbol = "2" -> 2

\* The orders in which a build may iterate over the set {"0", "1"}: the order
\* of a set of strings changes from one interpreter run to the next.
AlphabetOrders == {<<"0", "1">>, <<"1", "0">>}

\* The transition table with state + bit in place of 2 * state + bit.
TransitionsNoShift(m, order) ==
    [i \in 1..(2 * m) |->
        LET state == (i - 1) \div 2
            symbol == order[((i - 1) % 2) + 1]
        IN [state |-> state, symbol |-> symbol,
            next |-> (state + IntOfSymbol(symbol)) % m]]

\* The transition table with 2 * state + bit not reduced modulo m.
TransitionsNoWrap(m, order) ==
    [i \in 1..(2 * m) |->
        LET state == (i - 1) \div 2
            symbol == order[((i - 1) % 2) + 1]
        IN [state |-> state, symbol |-> symbol,
            next |-> 2 * state + IntOfSymbol(symbol)]]

\* The dict comprehension of build_binary_mod_spec: states in the order of
\* range(m), and for each state the symbols in the alphabet's order.
Transitions(m, order) ==
    [i \in 1..(2 * m) |->
        LET state == (i - 1) \div 2
            symbol == order[((i - 1) % 2) + 1]
        IN [state |-> state, symbol |-> symbol,
            next |-> (2 * state + IntOfSymbol(symbol)) % m]]

\* build_binary_mod_spec with F = {q0} in place of set(states).
BuildBinaryModSpecStartAccepting(h, m, order) ==
    IF ValidateMod(m).kind # ""
    THEN [heap |-> h, spec |-> NoSpec, error |-> ValidateMod(m)]
    ELSE LET states == 0..(m.value - 1)
             h4 == h \o <<states, {"0", "1"}, Transitions(m.value, order),
                          {0}>>
         IN [heap |-> h4,
             spec |-> [Q |-> Len(h) + 1, Sigma |-> Len(h) + 2, q0 |-> 0,
                       F |-> Len(h) + 4, delta |-> Len(h) + 3],
             error |-> NoError]

\* build_binary_mod_spec(mod): the error raised, or the spec and the heap with
\* its four containers (states, alphabet, transitions, set(states)).
BuildBinaryModSpec(h, m, order) ==
    IF ValidateMod(m).kind # ""
    THEN [heap |-> h, spec |-> NoSpec, error |-> ValidateMod(m)]
    ELSE LET states == 0..(m.value - 1)
             h4 == h \o <<states, {"0", "1"}, Transitions(m.value, order),
                          states>>
         IN [heap |-> h4,
             spec |-> [Q |-> Len(h) + 1, Sigma |-> Len(h) + 2, q0 |-> 0,
                       F |-> Len(h) + 4, delta |-> Len(h) + 3],
             error |-> NoError]

\* build_binary_mod_machine(mod)
BuildBinaryModMachine(h, m, order) ==
    LET s == BuildBinaryModSpec(h, m, order)
    IN IF s.error.kind # ""
       THEN [heap |-> h, self |-> NoMachine, error |-> s.error]
       ELSE FromSpec(s.heap, s.spec)

\* Arguments given as a modulus: integers from -1 on, the two booleans, the
\* string "3" and the float 3.0.
ModArgs ==
    {[type |-> "int", value |-> v] : v \in (-1)..MaxMod}
    \cup {[type |-> "bool", value |-> v] : v \in {0, 1}}
    \cup {[type |-> "str", value |-> 3], [type |-> "float", value |-> 3]}

\* A caller is about to build a binary-modulus machine for some argument.
InitMod ==
    /\ heap = <<>>
    /\ args = NoSpec
    /\ machine = NoMachine
    /\ built = NoFields
    /\ error = NoError
    /\ mutated = {}
    /\ mod \in ModArgs
    /\ created = NoFields
    /\ RunIdle
    /\ FacadeIdle
    /\ CliIdle

\* machine = build_binary_mod_machine(mod)
BuildMod ==
    /\ machine = NoMachine
    /\ error.kind = ""
    /\ mod.type # "none"
    /\ \E order \in AlphabetOrders :
         LET r == BuildBinaryModMachine(heap, mod, order)
         IN IF r.error.kind = ""
            THEN /\ heap' = r.heap
                 /\ machine' = r.self
                 /\ built' = Fields(r.heap, r.self)
                 /\ error' = NoError
            ELSE /\ heap' = heap
                 /\ machine' = NoMachine
                 /\ built' = NoFields
                 /\ error' = r.error
    /\ UNCHANGED <<cliVars, args, mutated, mod, created,
                 runVars, facadeVars>>

\* spec = build_binary_mod_spec(mod): the caller keeps the spec in args
BuildModSpec ==
    /\ args = NoSpec
    /\ machine = NoMachine
    /\ error.kind = ""
    /\ mod.type # "none"
    /\ \E order \in AlphabetOrders :
         LET r == BuildBinaryModSpec(heap, mod, order)
         IN /\ heap' = r.heap
            /\ args' = r.spec
            /\ error' = r.error
    /\ UNCHANGED <<cliVars, machine, built, mutated, mod, created,
                 runVars, facadeVars>>

\* machine = DeterministicTableMachineBuilder().from_spec(spec), for the spec
\* the caller holds in args
FromSpecCall ==
    /\ args # NoSpec
    /\ machine = NoMachine
    /\ error.kind = ""
    /\ LET r == FromSpec(heap, args)
       IN IF r.error.kind = ""
          THEN /\ heap' = r.heap
               /\ machine' = r.self
               /\ built' = Fields(r.heap, r.self)
               /\ error' = NoError
          ELSE /\ heap' = heap
               /\ machine' = NoMachine
               /\ built' = NoFields
               /\ error' = r.error
    /\ UNCHANGED <<cliVars, args, mutated, mod, created,
                 runVars, facadeVars>>

\* spec.F.clear() after the build, as the one mutation of F
ClearF == Mutated("F", Update(heap, args.F, {}))

\* spec.q0 = s after the build
ReassignQ0 ==
    /\ machine # NoMachine
    /\ "q0" \notin mutated
    /\ \E s \in StateU :
          /\ s # args.q0
          /\ args' = [args EXCEPT !.q0 = s]
    /\ mutated' = mutated \cup {"q0"}
    /\ UNCHANGED <<cliVars, heap, machine, built, error, mod, created,
                 runVars, facadeVars>>

NextBuilder ==
    \/ FromSpecCall
    \/ MutateQ
    \/ MutateSigma
    \/ MutateF
    \/ MutateDelta
    \/ ClearF
    \/ ReassignQ0

\* The caller holds a DeterministicMachineSpec over its containers (args),
\* builds a machine from it, then mutates the spec and its containers.
SpecBuilder == Init /\ [][NextBuilder]_vars

\* ------------------------------------------- the spec before it is built
\* The caller's local variables, each holding one of its containers.
Locals == [states |-> 1, symbols |-> 2, accepting_states |-> 3,
           transitions |-> 4]

\* DeterministicMachineSpec(...) keeping copies of the containers it is given.
DeterministicMachineSpecSnapshot(h, Q, Sigma, q0, F, delta) ==
    LET c1 == Copy(h, Q)
        c2 == Copy(c1.heap, Sigma)
        c3 == Copy(c2.heap, F)
        c4 == Copy(c3.heap, delta)
    IN [heap |-> c4.heap,
        spec |-> [Q |-> c1.ref, Sigma |-> c2.ref, q0 |-> q0, F |-> c3.ref,
                  delta |-> c4.ref],
        error |-> NoError]

\* DeterministicMachineSpec(Q=Q, Sigma=Sigma, q0=q0, F=F, delta=delta): the
\* generated __init__ stores its five arguments and nothing else.
DeterministicMachineSpecNew(h, Q, Sigma, q0, F, delta) ==
    [heap |-> h,
     spec |-> [Q |-> Q, Sigma |-> Sigma, q0 |-> q0, F |-> F, delta |-> delta],
     error |-> NoError]

\* Transition tables written with at most one entry, as {(0, "a"): 0} is.
LiteralDicts == {d \in Dicts : Len(d) <= 1}

\* The caller holds four containers of any contents, the table with at most
\* one entry; no spec is made yet.
InitLocals ==
    /\ \E Q \in SUBSET StateU, Sigma \in SUBSET SymbolU, F \in SUBSET StateU,
          d \in LiteralDicts :
          heap = <<Q, Sigma, F, d>>
    /\ args = NoSpec
    /\ machine = NoMachine
    /\ built = NoFields
    /\ error = NoError
    /\ mutated = {}
    /\ mod = NoMod
    /\ created = NoFields
    /\ RunIdle
    /\ FacadeIdle
    /\ CliIdle

\* spec = DeterministicMachineSpec(Q=states, Sigma=symbols, q0=q0,
\*                                 F=accepting_states, delta=transitions)
NewSpec ==
    /\ args = NoSpec
    /\ machine = NoMachine
    /\ error.kind = ""
    /\ mod = NoMod
    /\ \E q0 \in StateU :
          LET r == DeterministicMachineSpecNew(heap, Locals.states,
                       Locals.symbols, q0, Locals.accepting_states,
                       Locals.transitions)
          IN /\ heap' = r.heap
             /\ args' = r.spec
             /\ error' = r.error
             /\ created' = Fields(r.heap, r.spec)
    /\ UNCHANGED <<cliVars, machine, built, mutated, mod, runVars, facadeVars>>

\* One mutation of a container of the caller between the making of the spec
\* and the build, leaving the heap h; a call that changes nothing is left out.
MutatedBeforeBuild(h) ==
    /\ args # NoSpec
    /\ machine = NoMachine
    /\ error.kind = ""
    /\ mutated = {}
    /\ h # heap
    /\ heap' = h
    /\ mutated' = {"before"}
    /\ UNCHANGED <<cliVars, args, machine, built, error, mod, created,
                   runVars, facadeVars>>

\* states.add(s), states.discard(s) before the build
MutateStates ==
    \E s \in StateU :
        \/ MutatedBeforeBuild(Update(heap, Locals.states,
                                     heap[Locals.states] \cup {s}))
        \/ MutatedBeforeBuild(Update(heap, Locals.states,
                                     heap[Locals.states] \ {s}))

\* symbols.add(a), symbols.discard(a) before the build
MutateSymbols ==
    \E a \in SymbolU :
        \/ MutatedBeforeBuild(Update(heap, Locals.symbols,
                                     heap[Locals.symbols] \cup {a}))
        \/ MutatedBeforeBuild(Update(heap, Locals.symbols,
                                     heap[Locals.symbols] \ {a}))

\* spec.F.add(s), spec.F.discard(s) before the build
MutateSpecF ==
    /\ args # NoSpec
    /\ \E s \in StateU :
          \/ MutatedBeforeBuild(Update(heap, args.F, heap[args.F] \cup {s}))
          \/ MutatedBeforeBuild(Update(heap, args.F, heap[args.F] \ {s}))

\* spec.delta[(s, a)] = t and del transitions[(s, a)] before the build
MutateSpecDelta ==
    /\ args # NoSpec
    /\ \E s \in StateU, a \in SymbolU :
          \/ \E t \in StateU :
                 /\ Len(DeltaSet(heap[args.delta], s, a, t)) <= MaxDelta
                 /\ MutatedBeforeBuild(Update(heap, args.delta,
                                    DeltaSet(heap[args.delta], s, a, t)))
          \/ /\ DeltaHas(heap[Locals.transitions], s, a)
             /\ MutatedBeforeBuild(Update(heap, Locals.transitions,
                                    DeltaDel(heap[Locals.transitions], s, a)))

\* spec.q0 = s before the build
AssignSpecQ0 ==
    /\ args # NoSpec
    /\ machine = NoMachine
    /\ error.kind = ""
    /\ mutated = {}
    /\ \E s \in StateU :
          /\ s # args.q0
          /\ args' = [args EXCEPT !.q0 = s]
    /\ mutated' = {"before"}
    /\ UNCHANGED <<cliVars, heap, machine, built, error, mod, created,
                   runVars, facadeVars>>

NextSpec ==
    \/ NewSpec
    \/ MutateStates
    \/ MutateSymbols
    \/ MutateSpecF
    \/ MutateSpecDelta
    \/ AssignSpecQ0
    \/ FromSpecCall
    \/ ClearF
    \/ ReassignQ0

\* The caller makes a DeterministicMachineSpec over its containers, mutates
\* it, builds a machine from it, and mutates it again.
SpecSpec == InitLocals /\ [][NextSpec]_vars

\* Strings of at most MaxBits characters, the digit "2" among them.
DigitStrings == UNION {[1..n -> InputSymbolU] : n \in 0..MaxBits}

\* machine.run(s) on a digit string
RunStartDigits == RunStartOn(DigitStrings)

NextMod ==
    \/ BuildMod
    \/ BuildModSpec
    \/ FromSpecCall
    \/ RunStartDigits
    \/ RunStep
    \/ RunReturn

\* A binary-modulus machine is built, then run on digit strings.
SpecMod == InitMod /\ [][NextMod]_vars

\* ----------------------------------------------------------------- facade
\* Values given to modThree: the digit strings and an integer.
FacadeInputs == {StrValue(x) : x \in DigitStrings} \cup {IntValue}

\* _require_str without the isinstance test.
RequireStrNonEmptyOnly(v) ==
    IF v.chars = <<>>
    THEN Outcome("ValueError", "input must be non-empty", 0, 0, "")
    ELSE NoOutcome

\* _require_str(input_value): the exception raised, or NoOutcome when the
\* value is returned.
RequireStr(v) ==
    IF v.type # "str" THEN Outcome("TypeError", "input must be str", 0, 0, "")
    ELSE IF v.chars = <<>>
    THEN Outcome("ValueError", "input must be non-empty", 0, 0, "")
    ELSE NoOutcome

\* modThree reporting every failure of the run as one generic error.
ModThreeReturnGeneric(r) ==
    IF r.kind = "returned" THEN Returned(r.state)
    ELSE Outcome("ValueError", "invalid input", 0, 0, "")

\* return int(machine.run(input_value)): int() of a state of the modulus
\* machine, an int, is that state; an exception of run passes through modThree
\* as it is, there being no try around the call.
ModThreeReturn(r) ==
    IF r.kind = "returned" THEN Returned(r.state) ELSE r

\* The argument of build_binary_mod_machine in _get_mod_three_machine: 2.
ModulusTwo == [type |-> "int", value |-> 2]

\* The argument of build_binary_mod_machine in _get_mod_three_machine.
ModulusThree == [type |-> "int", value |-> 3]

\* A cache that keeps nothing, as with maxsize=0.
CacheKeepsNothing(c, m) == 0

\* What lru_cache(maxsize=1) holds once the wrapped call has returned the
\* machine m, if it held c when the call returned (0: nothing): it adds the
\* result unless the key was added in the meantime.
CacheAfterCall(c, m) == IF c = 0 THEN m ELSE c

AllIdle == \A t \in Threads : tpc[t] = "idle"

\* The values two racing callers pass: the strings of at most one character
\* and the integer.
RaceInputs == {v \in FacadeInputs : Len(v.chars) <= 1}

\* modThree(v) is called by t, for some v of S
CallOn(t, S) ==
    /\ tpc[t] = "idle"
    /\ calls < MaxCalls
    /\ calls' = calls + 1
    /\ \E v \in S : targ' = [targ EXCEPT ![t] = v]
    /\ tpc' = [tpc EXCEPT ![t] = "require"]
    /\ UNCHANGED <<cliVars, heap, machineVars, runVars, cache, instances, tmachine,
                   tresult, resets, epochPassed, epochBuilds>>

\* modThree(v) is called by t
Call(t) == CallOn(t, FacadeInputs)

\* input_value = _require_str(input)
CheckInput(t) ==
    /\ tpc[t] = "require"
    /\ IF RequireStr(targ[t]).kind # ""
       THEN /\ tresult' = [tresult EXCEPT ![t] = RequireStr(targ[t])]
            /\ tpc' = [tpc EXCEPT ![t] = "done"]
            /\ UNCHANGED epochPassed
       ELSE /\ tpc' = [tpc EXCEPT ![t] = "lookup"]
            /\ epochPassed' = epochPassed + 1
            /\ UNCHANGED tresult
    /\ UNCHANGED <<cliVars, heap, machineVars, runVars, cache, instances, targ,
                   tmachine, calls, resets, epochBuilds>>

\* _get_mod_three_machine(): the lookup of the lru_cache wrapper
Lookup(t) ==
    /\ tpc[t] = "lookup"
    /\ IF cache # 0
       THEN /\ tmachine' = [tmachine EXCEPT ![t] = cache]
            /\ tpc' = [tpc EXCEPT ![t] = "run"]
       ELSE /\ tpc' = [tpc EXCEPT ![t] = "build"]
            /\ UNCHANGED tmachine
    /\ UNCHANGED <<cliVars, heap, machineVars, runVars, cache, instances, targ,
                   tresult, calls, resets, epochPassed, epochBuilds>>

\* the wrapped function runs on a miss: build_binary_mod_machine(3)
Build(t) ==
    /\ tpc[t] = "build"
    /\ \E order \in AlphabetOrders :
         LET r == BuildBinaryModMachine(heap, ModulusThree, order)
         IN IF r.error.kind = ""
            THEN /\ heap' = r.heap
                 /\ instances' = Append(instances, r.self)
                 /\ tmachine' = [tmachine EXCEPT ![t] = Len(instances) + 1]
                 /\ tpc' = [tpc EXCEPT ![t] = "store"]
                 /\ UNCHANGED tresult
            ELSE /\ tresult' = [tresult EXCEPT ![t] =
                                   Outcome(r.error.type, r.error.kind, 0, 0, "")]
                 /\ tpc' = [tpc EXCEPT ![t] = "done"]
                 /\ UNCHANGED <<heap, instances, tmachine>>
    /\ epochBuilds' = epochBuilds + 1
    /\ UNCHANGED <<cliVars, machineVars, runVars, cache, targ, calls, resets,
                   epochPassed>>

\* the lru_cache wrapper stores the result of the wrapped function
Store(t) ==
    /\ tpc[t] = "store"
    /\ cache' = CacheAfterCall(cache, tmachine[t])
    /\ tpc' = [tpc EXCEPT ![t] = "run"]
    /\ UNCHANGED <<cliVars, heap, machineVars, runVars, instances, targ, tmachine,
                   tresult, calls, resets, epochPassed, epochBuilds>>

\* A modThree that clears the cache when the run raises:
\* except ValueError: _get_mod_three_machine.cache_clear(); raise
CacheAfterRunClearedOnError(c, r) == IF r.kind = "returned" THEN c ELSE 0

\* What the cache holds after machine.run(input_value) returned or raised r,
\* if it held c before: modThree has no try around the run and calls
\* cache_clear nowhere, so an exception leaves the module through modThree
\* with the cache as it was.
CacheAfterRun(c, r) == c

\* return int(machine.run(input_value)): int() of a state of the modulus
\* machine, an int, is that state
RunMachine(t) ==
    /\ tpc[t] = "run"
    /\ LET r == Run(Fields(heap, instances[tmachine[t]]), targ[t].chars)
       IN /\ tresult' = [tresult EXCEPT ![t] = ModThreeReturn(r)]
          /\ cache' = CacheAfterRun(cache, r)
    /\ tpc' = [tpc EXCEPT ![t] = "done"]
    /\ UNCHANGED <<cliVars, heap, machineVars, runVars, instances, targ,
                   tmachine, calls, resets, epochPassed, epochBuilds>>

\* modThree has returned or raised: its locals are gone
Return(t) ==
    /\ tpc[t] = "done"
    /\ tpc' = [tpc EXCEPT ![t] = "idle"]
    /\ targ' = [targ EXCEPT ![t] = StrValue(<<>>)]
    /\ tmachine' = [tmachine EXCEPT ![t] = 0]
    /\ tresult' = [tresult EXCEPT ![t] = NoOutcome]
    /\ UNCHANGED <<cliVars, heap, machineVars, runVars, cache, instances, calls,
                   resets, epochPassed, epochBuilds>>

\* _get_mod_three_machine.cache_clear(): the cached instance is discarded
Reset ==
    /\ resets < MaxResets
    /\ resets' = resets + 1
    /\ cache' = 0
    /\ epochPassed' = 0
    /\ epochBuilds' = 0
    /\ UNCHANGED <<cliVars, heap, machineVars, runVars, instances, tpc, targ, tmachine,
                   tresult, calls>>

InitFacade ==
    /\ heap = <<>>
    /\ args = NoSpec
    /\ machine = NoMachine
    /\ built = NoFields
    /\ error = NoError
    /\ mutated = {}
    /\ mod = NoMod
    /\ created = NoFields
    /\ RunIdle
    /\ FacadeIdle
    /\ CliIdle

\* One call at a time: a call begins, and the cache is reset, only when no
\* call is in progress.
SequentialCall == \E t \in Threads : AllIdle /\ Call(t)
SequentialReset == AllIdle /\ Reset

NextFacade ==
    \/ SequentialCall
    \/ \E t \in Threads : CheckInput(t)
    \/ \E t \in Threads : Lookup(t)
    \/ \E t \in Threads : Build(t)
    \/ \E t \in Threads : Store(t)
    \/ \E t \in Threads : RunMachine(t)
    \/ \E t \in Threads : Return(t)
    \/ SequentialReset

\* Sequential calls of modThree, with resets of the cache between calls.
SpecFacade == InitFacade /\ [][NextFacade]_vars

\* modThree has returned or raised and the caller goes on to its next call,
\* what this call gave being kept in `previous'
ReturnThen(t) ==
    /\ tpc[t] = "done"
    /\ tpc' = [tpc EXCEPT ![t] = "idle"]
    /\ targ' = [targ EXCEPT ![t] = StrValue(<<>>)]
    /\ tmachine' = [tmachine EXCEPT ![t] = 0]
    /\ tresult' = [tresult EXCEPT ![t] = NoOutcome]
    /\ previous' = tresult[t]
    /\ UNCHANGED <<cliVars, heap, machineVars, pc, input, index, current,
                   outcome, op, accepted, lookups, cache, instances, calls,
                   resets, epochPassed, epochBuilds>>

NextFacadeAgain ==
    \/ SequentialCall
    \/ \E t \in Threads : CheckInput(t)
    \/ \E t \in Threads : Lookup(t)
    \/ \E t \in Threads : Build(t)
    \/ \E t \in Threads : Store(t)
    \/ \E t \in Threads : RunMachine(t)
    \/ \E t \in Threads : ReturnThen(t)
    \/ SequentialReset

\* Sequential calls of modThree, one after another, with resets of the cache
\* between calls.
SpecFacadeAgain == InitFacade /\ [][NextFacadeAgain]_vars

\* A caller may call modThree while another caller's call is in progress:
\* the threads interleave between any two steps of modThree.
ConcurrentCall == \E t \in Threads : CallOn(t, RaceInputs)

NextFacadeRace ==
    \/ ConcurrentCall
    \/ \E t \in Threads : CheckInput(t)
    \/ \E t \in Threads : Lookup(t)
    \/ \E t \in Threads : Build(t)
    \/ \E t \in Threads : Store(t)
    \/ \E t \in Threads : RunMachine(t)
    \/ \E t \in Threads : Return(t)

\* Concurrent calls of modThree from an empty cache, without a reset.
SpecFacadeRace == InitFacade /\ [][NextFacadeRace]_vars

\* ------------------------------------------------------- command line
\* The lines the interactive loop may read before the input ends.
MaxLines == 2

\* The thread of the command-line process.
MainThread == 1

Whitespace == {" ", "\t"}

\* str.lower() on one character, for the letters of the lines below
LowerChar(c) ==
    CASE c = "E" -> "e"
      [] c = "X" -> "x"
      [] c = "I" -> "i"
      [] c = "T" -> "t"
      [] c = "Q" -> "q"
      [] c = "U" -> "u"
      [] OTHER -> c

\* str.lower()
Lower(x) == [i \in 1..Len(x) |-> LowerChar(x[i])]

RECURSIVE LStrip(_)
LStrip(x) ==
    IF x # <<>> /\ x[1] \in Whitespace THEN LStrip(Tail(x)) ELSE x

RECURSIVE RStrip(_)
RStrip(x) ==
    IF x # <<>> /\ x[Len(x)] \in Whitespace
    THEN RStrip(SubSeq(x, 1, Len(x) - 1))
    ELSE x

\* str.strip(): the whitespace at both ends is removed
Strip(x) == RStrip(LStrip(x))

\* {"exit", "quit", "q"}
ExitWords == {<<"e", "x", "i", "t">>, <<"q", "u", "i", "t">>, <<"q">>}

\* The test for a termination command that ignores no case.
IsExitCommandCaseSensitive(input_value) == input_value \in ExitWords

\* input_value.lower() in {"exit", "quit", "q"}
IsExitCommand(input_value) == Lower(input_value) \in ExitWords

\* Lines of standard input, without their newline: binary strings, strings
\* with other characters, blanks around and inside, the empty line, and the
\* termination commands in several spellings, with near misses.
CliLines ==
    {<<>>, <<" ">>, <<"1">>, <<"1", "1">>, <<" ", "1", "0">>, <<"1", " ", "1">>,
     <<"1", "2">>, <<"2">>, <<"1", "0", "1", " ">>, <<"1", "0", "2", "1">>,
     <<"q">>, <<"Q", " ">>, <<"q", "q">>, <<"e", "x", "i", "t">>,
     <<" ", "E", "x", "I", "T">>, <<"Q", "U", "I", "T", "\t">>,
     <<"e", "x", "i">>, <<"e", "x", " ", "i", "t">>}

\* The command lines: with or without the interactive flag, with or without
\* an argument, which is one of the lines above.
CliArgv ==
    [interactive : BOOLEAN,
     input_value : {NoneValue} \cup {StrValue(x) : x \in CliLines}]

\* The prompt of input(prompt), written to standard output before the read.
Prompt == "Enter binary number (or 'exit' to quit): "

\* str(result) for a state of the modulus-3 machine, as print writes it
IntToStr(n) ==
    CASE n = 0 -> "0"
      [] n = 1 -> "1"
      [] n = 2 -> "2"

\* str(exc): the message of the exception with its details, without its type
ExcMessage(r) == Outcome("text", r.msg, 0, r.index, r.symbol)

\* parser.error(...): the usage line and the error, on standard error
UsageError ==
    Outcome("text", "usage: the following arguments are required: input_value",
            0, 0, "")

\* The traceback the interpreter writes for an exception nothing catches.
Traceback == Outcome("text", "Traceback", 0, 0, "")

\* except (TypeError, ValueError)
Caught(r) == r.kind \in {"TypeError", "ValueError"}

\* main returning 0 after it reported an error.
MainOutputAlwaysZero(r) ==
    IF r.kind = "returned"
    THEN [out |-> <<IntToStr(r.state)>>, err |-> <<>>, code |-> 0]
    ELSE [out |-> <<>>, err |-> <<ExcMessage(r)>>, code |-> 0]

\* What main writes and returns once modThree has ended with r: the result
\* and 0, or the message of a caught exception and 1; any other exception
\* leaves main and the interpreter exits with 1 after its traceback.
MainOutput(r) ==
    IF r.kind = "returned"
    THEN [out |-> <<IntToStr(r.state)>>, err |-> <<>>, code |-> 0]
    ELSE IF Caught(r)
    THEN [out |-> <<>>, err |-> <<ExcMessage(r)>>, code |-> 1]
    ELSE [out |-> <<>>, err |-> <<Traceback>>, code |-> 1]

\* The loop returning 1 after it reported an error.
InteractiveOutputStopsOnError(r) ==
    IF r.kind = "returned"
    THEN [out |-> <<IntToStr(r.state)>>, err |-> <<>>, code |-> -1]
    ELSE [out |-> <<>>, err |-> <<ExcMessage(r)>>, code |-> 1]

\* What one iteration of the loop writes once modThree has ended with r, and
\* the exit status if the loop ends (-1: it goes on): a caught exception is
\* reported and the loop continues.
InteractiveOutput(r) ==
    IF r.kind = "returned"
    THEN [out |-> <<IntToStr(r.state)>>, err |-> <<>>, code |-> -1]
    ELSE IF Caught(r)
    THEN [out |-> <<>>, err |-> <<ExcMessage(r)>>, code |-> -1]
    ELSE [out |-> <<>>, err |-> <<Traceback>>, code |-> 1]

\* python -m modulo_three with some arguments: nothing has run yet.
InitCli ==
    /\ heap = <<>>
    /\ args = NoSpec
    /\ machine = NoMachine
    /\ built = NoFields
    /\ error = NoError
    /\ mutated = {}
    /\ mod = NoMod
    /\ created = NoFields
    /\ RunIdle
    /\ FacadeIdle
    /\ cpc = "start"
    /\ argv \in CliArgv
    /\ stdout = <<>>
    /\ stderr = <<>>
    /\ exitCode = -1
    /\ linesRead = 0
    /\ lastRead = NothingRead

\* main up to its call of modThree: the interactive flag comes first, then the
\* test for a missing argument, where parser.error exits with status 2.
Main ==
    /\ cpc = "start"
    /\ IF argv.interactive
       THEN /\ cpc' = "read"
            /\ UNCHANGED <<stderr, exitCode, targ, tpc, calls>>
       ELSE IF argv.input_value.type = "none"
       THEN /\ stderr' = Append(stderr, UsageError)
            /\ exitCode' = 2
            /\ cpc' = "exited"
            /\ UNCHANGED <<targ, tpc, calls>>
       ELSE /\ targ' = [targ EXCEPT ![MainThread] = argv.input_value]
            /\ tpc' = [tpc EXCEPT ![MainThread] = "require"]
            /\ calls' = calls + 1
            /\ cpc' = "call"
            /\ UNCHANGED <<stderr, exitCode>>
    /\ UNCHANGED <<heap, machineVars, runVars, cache, instances, tmachine,
                   tresult, resets, epochPassed, epochBuilds, argv, stdout,
                   linesRead, lastRead>>

\* One pass of the loop up to its call of modThree: input(prompt) writes the
\* prompt and raises EOFError at the end of the input, or returns a line; the
\* loop returns 0 on the end of the input and on a termination command.
ReadLine ==
    /\ cpc = "read"
    /\ stdout' = Append(stdout, Prompt)
    /\ \/ /\ lastRead' = EndOfInput
          /\ exitCode' = 0
          /\ cpc' = "exited"
          /\ UNCHANGED <<linesRead, targ, tpc, calls>>
       \/ /\ linesRead < MaxLines
          /\ linesRead' = linesRead + 1
          /\ \E raw_value \in CliLines :
                LET input_value == Strip(raw_value)
                IN /\ lastRead' = LineRead(raw_value)
                   /\ IF IsExitCommand(input_value)
                      THEN /\ exitCode' = 0
                           /\ cpc' = "exited"
                           /\ UNCHANGED <<targ, tpc, calls>>
                      ELSE /\ targ' = [targ EXCEPT
                                          ![MainThread] = StrValue(input_value)]
                           /\ tpc' = [tpc EXCEPT ![MainThread] = "require"]
                           /\ calls' = calls + 1
                           /\ cpc' = "call"
                           /\ UNCHANGED exitCode
    /\ UNCHANGED <<heap, machineVars, runVars, cache, instances, tmachine,
                   tresult, resets, epochPassed, epochBuilds, argv, stderr>>

\* modThree has ended for the caller `main' or `loop': the caller prints.
Report(output) ==
    /\ cpc = "call"
    /\ tpc[MainThread] = "done"
    /\ stdout' = stdout \o output.out
    /\ stderr' = stderr \o output.err
    /\ exitCode' = output.code
    /\ cpc' = IF output.code = -1 THEN "read" ELSE "exited"
    /\ tpc' = [tpc EXCEPT ![MainThread] = "idle"]
    /\ targ' = [targ EXCEPT ![MainThread] = StrValue(<<>>)]
    /\ tmachine' = [tmachine EXCEPT ![MainThread] = 0]
    /\ tresult' = [tresult EXCEPT ![MainThread] = NoOutcome]
    /\ UNCHANGED <<heap, machineVars, runVars, cache, instances, calls,
                   resets, epochPassed, epochBuilds, argv, linesRead,
                   lastRead>>

\* main after modThree: print(result) and return 0, or the except clause
MainReport ==
    /\ ~argv.interactive
    /\ Report(MainOutput(tresult[MainThread]))

\* the loop after modThree: print(result), or the except clause and continue
InteractiveReport ==
    /\ argv.interactive
    /\ Report(InteractiveOutput(tresult[MainThread]))

NextCli ==
    \/ Main
    \/ ReadLine
    \/ \E t \in Threads : CheckInput(t)
    \/ \E t \in Threads : Lookup(t)
    \/ \E t \in Threads : Build(t)
    \/ \E t \in Threads : Store(t)
    \/ \E t \in Threads : RunMachine(t)
    \/ MainReport
    \/ InteractiveReport

\* One run of the command-line process, in either mode.
SpecCli == InitCli /\ [][NextCli]_vars

\* The process keeps executing while it has a step to take, and its input
\* is finite. The build step is enabled exactly where a call is at it and
\* moves the call on, so its weak fairness is that no call stays at the build
\* step for ever.
SpecCliFair ==
    /\ SpecCli
    /\ WF_vars(Main)
    /\ WF_vars(ReadLine)
    /\ WF_vars(\E t \in Threads : CheckInput(t))
    /\ WF_vars(\E t \in Threads : Lookup(t))
    /\ []<>(\A t \in Threads : tpc[t] # "build")
    /\ WF_vars(\E t \in Threads : Store(t))
    /\ WF_vars(\E t \in Threads : RunMachine(t))
    /\ WF_vars(MainReport)
    /\ WF_vars(InteractiveReport)

\* ------------------------------------------------- properties: construction
\* The 5-tuple invariants, as the data model states them.
WellFormed(f) ==
    /\ f.Q # {}
    /\ f.Sigma # {}
    /\ f.q0 \in f.Q
    /\ f.F \subseteq f.Q
    /\ \A i \in 1..Len(f.delta) :
           /\ f.delta[i].state \in f.Q
           /\ f.delta[i].symbol \in f.Sigma
           /\ f.delta[i].next \in f.Q
    /\ \A s \in f.Q, a \in f.Sigma : DeltaHas(f.delta, s, a)
    /\ Len(f.delta) = Cardinality(f.Q) * Cardinality(f.Sigma)

\* The construction was attempted and raised.
Rejected == machine = NoMachine /\ error.kind # ""
\* The construction was attempted and returned a machine.
Accepted == machine # NoMachine /\ error.kind = ""
\* The definition the caller holds. Until the caller mutates a container it is
\* the definition the construction was given.
Given == Fields(heap, args)

C6_IsolatedFromCaller ==
    machine # NoMachine =>
        /\ Fields(heap, machine) = built
        /\ \A state \in built.Q, symbol \in InputSymbolU :
               LoopBody(Fields(heap, machine), state, 0, symbol)
                   = LoopBody(built, state, 0, symbol)
        /\ Run(Fields(heap, machine), <<>>) = Returned(built.q0)

C6_Witness ==
    /\ machine # NoMachine
    /\ mutated = {"Q", "Sigma", "F", "delta"}
    /\ Given.Q # built.Q
    /\ Given.Sigma # built.Sigma
    /\ Given.F # built.F
    /\ Given.delta # built.delta

\* The rank of an error in the order of the checks.
Rank(kind) ==
    CASE kind = "Q must be non-empty" -> 1
      [] kind = "Sigma must be non-empty" -> 2
      [] kind = "q0 must be a member of Q" -> 3
      [] kind = "F must be a subset of Q" -> 4
      [] kind = "delta key state must be in Q" -> 5
      [] kind = "delta key symbol must be in Sigma" -> 5
      [] kind = "delta value must be in Q" -> 5
      [] kind = "delta must be total over QxSigma" -> 6

\* Item i of the table has a key or a value that is not well formed.
BadItem(f, i) ==
    \/ f.delta[i].state \notin f.Q
    \/ f.delta[i].symbol \notin f.Sigma
    \/ f.delta[i].next \notin f.Q

\* The ranks of the invariants the definition f violates.
Violated(f) ==
    {r \in 1..6 :
        \/ r = 1 /\ f.Q = {}
        \/ r = 2 /\ f.Sigma = {}
        \/ r = 3 /\ f.q0 \notin f.Q
        \/ r = 4 /\ ~(f.F \subseteq f.Q)
        \/ r = 5 /\ \E i \in 1..Len(f.delta) : BadItem(f, i)
        \/ r = 6 /\ Len(f.delta) # Cardinality(f.Q) * Cardinality(f.Sigma)}

\* C7: a rejected construction reports the first violated invariant in the
\* order Q non-empty, Sigma non-empty, q0 in Q, F within Q, the delta key and
\* value checks, totality; so a totality error is reported only when all the
\* other invariants hold.
C7_FirstViolationReported ==
    Rejected =>
        /\ Rank(error.kind) \in Violated(Given)
        /\ \A r \in Violated(Given) : Rank(error.kind) <= r
        /\ Rank(error.kind) = 6 => Violated(Given) = {6}

C7_Witness ==
    /\ Rejected
    /\ Violated(Given) = {2, 3, 4, 5, 6}
    /\ error.kind = "Sigma must be non-empty"

\* The kind of violation of one item, key state before key symbol before value.
ItemKind(f, i) ==
    IF f.delta[i].state \notin f.Q THEN "delta key state must be in Q"
    ELSE IF f.delta[i].symbol \notin f.Sigma
    THEN "delta key symbol must be in Sigma"
    ELSE "delta value must be in Q"

\* C8 as claimed: among the table checks the priority is by kind over the whole
\* table: a key state outside Q anywhere is reported before any key symbol
\* outside Sigma, and that before any value outside Q.
C8_Original ==
    Rejected /\ Rank(error.kind) = 5 =>
        /\ (\E i \in 1..Len(Given.delta) : Given.delta[i].state \notin Given.Q)
               => error.kind = "delta key state must be in Q"
        /\ error.kind = "delta value must be in Q" =>
               \A i \in 1..Len(Given.delta) :
                   /\ Given.delta[i].state \in Given.Q
                   /\ Given.delta[i].symbol \in Given.Sigma
        /\ error.kind = "delta key symbol must be in Sigma" =>
               \A i \in 1..Len(Given.delta) : Given.delta[i].state \in Given.Q

\* C8 amended: among the table checks the priority is by position first and by
\* kind second: the error reported is that of the first item, in the table's
\* iteration order, that violates anything, and within that item a key state
\* outside Q is reported before a key symbol outside Sigma and that before a
\* value outside Q.
C8_FirstBadItemReported ==
    Rejected /\ Rank(error.kind) = 5 =>
        \E i \in 1..Len(Given.delta) :
            /\ BadItem(Given, i)
            /\ \A j \in 1..(i - 1) : ~BadItem(Given, j)
            /\ error.kind = ItemKind(Given, i)
            /\ error.info[1] = Given.delta[i].state
            /\ error.info[2] = Given.delta[i].symbol

\* The first item has a value outside Q and a later one a key state outside Q.
C8_Witness ==
    /\ Rejected
    /\ error.kind = "delta value must be in Q"
    /\ \E i \in 1..Len(Given.delta) : Given.delta[i].state \notin Given.Q

\* Three states, two symbols and an empty table: expected 6, actual 0.
EmptyTableExpected6Actual0 ==
    LET e == ValidateDefinitionTotal(
                 [Q |-> {0, 1, 2}, Sigma |-> {"0", "1"}, q0 |-> 0,
                  F |-> {0}, delta |-> <<>>])
    IN /\ e.kind = "delta must be total over QxSigma"
       /\ e.info.expected = 6
       /\ e.info.actual = 0

FirstInvalid(f, x) ==
    CHOOSE i \in 0..Len(x) :
        /\ \A j \in 1..i : x[j] \in f.Sigma
        /\ i < Len(x) => x[i + 1] \notin f.Sigma

\* C2: run never fails on a missing transition. While it loops the current
\* state is in Q and, when the next symbol is in Sigma, delta has the key
\* (current state, symbol); run ends with a state of Q or with the
\* invalid-symbol error, never with a lookup failure.
C2_NoMissingTransition ==
    LET f == Fields(heap, machine)
    IN /\ pc = "loop" =>
              /\ current \in f.Q
              /\ (index < Len(input) /\ input[index + 1] \in f.Sigma)
                     => DeltaHas(f.delta, current, input[index + 1])
       /\ pc = "done" =>
              \/ outcome.kind = "returned" /\ outcome.state \in f.Q
              \/ /\ outcome.kind = "ValueError"
                 /\ outcome.msg = "invalid symbol at index"

C2_Witness ==
    /\ pc = "done"
    /\ outcome.kind = "returned"
    /\ Len(input) = 3
    /\ Cardinality(Fields(heap, machine).Q) = 2
    /\ outcome.state # Fields(heap, machine).q0

\* run("1021") on the modulus-3 machine raises for index 2 and symbol "2".
ModThreeRejects1021 ==
    \A order \in AlphabetOrders :
        LET b == BuildBinaryModMachine(<<>>, [type |-> "int", value |-> 3],
                                       order)
        IN Run(Fields(b.heap, b.self), <<"1", "0", "2", "1">>)
               = InvalidSymbol(2, "2")

\* C5: an input with a symbol outside Sigma makes run raise the invalid-symbol
\* error naming the zero-based index of the first such symbol and the symbol;
\* run returns no state, and it never goes past that index. On the modulus-3
\* machine "1021" fails with index 2 and symbol "2".
C5_FirstInvalidSymbolReported ==
    LET f == Fields(heap, machine)
        bad == FirstInvalid(f, input)
    IN /\ pc \in {"loop", "done"} => index <= bad
       /\ (pc = "done" /\ bad < Len(input)) =>
              /\ outcome = InvalidSymbol(bad, input[bad + 1])
              /\ index = bad
       /\ ModThreeRejects1021

C5_Witness ==
    /\ pc = "done"
    /\ outcome.kind = "ValueError"
    /\ outcome.index = 1
    /\ Len(input) = 3
    /\ input[3] \notin Fields(heap, machine).Sigma

\* ------------------------------------------- properties: binary-modulus family
RECURSIVE Pow2(_)
Pow2(n) == IF n = 0 THEN 1 ELSE 2 * Pow2(n - 1)

RECURSIVE SumTo(_, _)
\* The sum of the first n terms of the sequence of numbers w.
SumTo(w, n) == IF n = 0 THEN 0 ELSE SumTo(w, n - 1) + w[n]

\* The string x holds only the characters "0" and "1".
IsBinary(x) == \A i \in 1..Len(x) : x[i] \in {"0", "1"}

\* The number a string of bits denotes, most significant bit first: the bit at
\* position i weighs 2^(Len(x) - i).
BinaryValue(x) ==
    SumTo([i \in 1..Len(x) |-> (IF x[i] = "1" THEN 1 ELSE 0) * Pow2(Len(x) - i)],
          Len(x))

\* C3: for a modulus m >= 1 and a string s of "0" and "1", most significant bit
\* first, build_binary_mod_machine(m).run(s) is the binary value of s modulo m;
\* for m = 1 it is 0, and for m = 3 "1101" gives 1, "1110" 2, "1111" 0 and
\* "1011" 2.
C3_RunIsValueModM ==
    (pc = "done" /\ machine # NoMachine /\ IsBinary(input)) =>
        /\ mod.type = "int" /\ mod.value >= 1
        /\ outcome = Returned(BinaryValue(input) % mod.value)
        /\ mod.value = 1 => outcome.state = 0
        /\ mod.value = 3 =>
              /\ input = <<"1", "1", "0", "1">> => outcome.state = 1
              /\ input = <<"1", "1", "1", "0">> => outcome.state = 2
              /\ input = <<"1", "1", "1", "1">> => outcome.state = 0
              /\ input = <<"1", "0", "1", "1">> => outcome.state = 2

C3_Witness ==
    /\ pc = "done"
    /\ mod = [type |-> "int", value |-> 3]
    /\ input = <<"1", "1", "1", "0">>
    /\ outcome = Returned(2)

\* -------------------------------------------------------- properties: facade
\* The reference of the facade's exhaustive test: r := (2 * r + bit) mod 3 over
\* the characters from the left, starting from 0.
RECURSIVE ReferenceFrom(_, _, _)
ReferenceFrom(x, i, remainder) ==
    IF i > Len(x) THEN remainder
    ELSE ReferenceFrom(x, i + 1, (2 * remainder + IntOfSymbol(x[i])) % 3)

ReferenceModThree(x) == ReferenceFrom(x, 1, 0)

\* C4: for a non-empty string of "0" and "1", leading zeros allowed, modThree
\* returns the binary value of the string modulo 3, which is what the
\* reference fold r := (2 * r + bit) mod 3 from 0 gives.
C4_ModThreeIsValueMod3 ==
    \A t \in Threads :
        (/\ tpc[t] = "done"
         /\ targ[t].type = "str"
         /\ targ[t].chars # <<>>
         /\ IsBinary(targ[t].chars)) =>
            /\ tresult[t] = Returned(BinaryValue(targ[t].chars) % 3)
            /\ tresult[t].state = ReferenceModThree(targ[t].chars)

C4_Witness ==
    \E t \in Threads :
        /\ tpc[t] = "done"
        /\ targ[t] = StrValue(<<"0", "1", "0", "1">>)
        /\ tresult[t] = Returned(2)

\* C10: with sequential calls, from an empty cache, the calls that pass the
\* input validation trigger exactly one build between them: the first of them
\* builds the machine and every later one runs the cached instance; after a
\* reset the next such call builds once more and the ones after it do not.
C10_OneBuildPerReset ==
    /\ epochBuilds <= 1
    /\ \A t \in Threads :
           /\ tpc[t] \in {"build", "store"} => epochPassed = 1
           /\ tpc[t] = "run" =>
                  /\ epochBuilds = 1
                  /\ cache = Len(instances)
                  /\ tmachine[t] = cache
    /\ (AllIdle /\ epochPassed >= 1) =>
           /\ epochBuilds = 1
           /\ cache = Len(instances)
    /\ AllIdle => Len(instances) <= resets + 1

C10_Witness ==
    /\ AllIdle
    /\ resets = 1
    /\ epochPassed = 2
    /\ epochBuilds = 1
    /\ Len(instances) = 2

\* --------------------------------------------- properties: concurrent facade
\* C11: when callers race on an empty cache, both looking the machine up
\* before either has stored it, the modulus-3 machine is still built at most
\* once in total.
C11_AtMostOneBuild == Len(instances) <= 1

\* C12: without a reset every call runs its input on one and the same
\* instance, the cached one: no two calls hold different instances, and the
\* instance a call runs on is the instance in the cache.
C12_OneInstanceObserved ==
    \A t, u \in Threads :
        /\ (tmachine[t] # 0 /\ tmachine[u] # 0) => tmachine[t] = tmachine[u]
        /\ tpc[t] \in {"run", "done"} /\ tmachine[t] # 0 => tmachine[t] = cache

\* -------------------------------------------------------- properties: accepts
\* C13: run of the empty sequence returns q0 and makes no lookup in delta, and
\* accepts of the empty sequence returns true exactly when q0 is in F.
C13_EmptyInputIsIdentity ==
    (pc = "done" /\ input = <<>>) =>
        /\ lookups = 0
        /\ outcome.kind = "returned"
        /\ op = "run" => outcome = Returned(machine.q0)
        /\ op = "accepts" =>
               accepted = (machine.q0 \in Fields(heap, machine).F)

C13_Witness ==
    /\ pc = "done"
    /\ input = <<>>
    /\ op = "accepts"
    /\ accepted
    /\ machine.q0 = 1
    /\ Fields(heap, machine).F = {1}

\* C14: accepts(x) returns true exactly when run(x) returns a state of F, and
\* when x holds a symbol outside Sigma accepts raises the invalid-symbol error
\* run(x) raises, with the same index and symbol, and nothing else.
C14_AcceptsIsRunInF ==
    (pc = "done" /\ op = "accepts") =>
        LET f == Fields(heap, machine)
            r == Run(f, input)
        IN IF r.kind = "returned"
           THEN /\ outcome.kind = "returned"
                /\ accepted = (r.state \in f.F)
           ELSE /\ r.kind = "ValueError"
                /\ outcome = r
                /\ outcome = InvalidSymbol(FirstInvalid(f, input),
                                           input[FirstInvalid(f, input) + 1])

C14_Witness ==
    /\ pc = "done"
    /\ op = "accepts"
    /\ Len(input) = 2
    /\ outcome.kind = "returned"
    /\ ~accepted
    /\ Fields(heap, machine).F # {}

\* ------------------------------------------------- properties: the generator
ValidModulus(m) == m.type = "int" /\ m.value >= 1

\* C15: a build for a boolean or a non-integer modulus ends with the type
\* error, a build for an integer below 1 with the range error, the type test
\* coming first; in each case no spec, no machine and no container is produced.
C15_ModulusValidatedFirst ==
    [][~ValidModulus(mod) =>
          /\ error' = IF mod.type # "int" THEN TypeError("mod must be int")
                      ELSE ValueError("mod must be >= 1", <<>>)
          /\ args' = NoSpec
          /\ machine' = NoMachine
          /\ heap' = <<>>]_vars

C15_Witness ==
    /\ mod = [type |-> "bool", value |-> 0]
    /\ error = TypeError("mod must be int")
    /\ args = NoSpec

\* C16: the spec generated for an integer m >= 1 has Q = 0..m-1, Sigma =
\* {"0", "1"}, q0 = 0, F = Q and a delta of exactly 2 * m entries with
\* delta[(s, b)] = (2 * s + value(b)) mod m for every s and b.
C16_GeneratedSpecContents ==
    args # NoSpec =>
        LET f == Fields(heap, args)
            m == mod.value
        IN /\ ValidModulus(mod)
           /\ f.Q = 0..(m - 1)
           /\ f.Sigma = {"0", "1"}
           /\ f.q0 = 0
           /\ f.F = f.Q
           /\ Len(f.delta) = 2 * m
           /\ \A s \in f.Q : \A b \in f.Sigma :
                 /\ DeltaHas(f.delta, s, b)
                 /\ DeltaGet(f.delta, s, b) = (2 * s + IntOfSymbol(b)) % m
           /\ m = 1 => \A i \in 1..Len(f.delta) :
                           f.delta[i].state = 0 /\ f.delta[i].next = 0

C16_Witness ==
    /\ args # NoSpec
    /\ machine = NoMachine
    /\ mod.value = 3
    /\ DeltaGet(Fields(heap, args).delta, 2, "0") = 1
    /\ DeltaGet(Fields(heap, args).delta, 1, "1") = 0

\* C17: for an integer m >= 1 neither the generator nor the table builder
\* fails, and the generated table passes validation: every pair of Q x Sigma
\* is a key exactly once and every target is in Q.
C17_GeneratedSpecIsValid ==
    /\ ValidModulus(mod) => error.kind = ""
    /\ args # NoSpec =>
          LET f == Fields(heap, args)
          IN /\ ValidateDefinitionTotal(f) = NoError
             /\ \A s \in f.Q : \A b \in f.Sigma :
                   Cardinality({i \in 1..Len(f.delta) :
                       f.delta[i].state = s /\ f.delta[i].symbol = b}) = 1
             /\ \A i \in 1..Len(f.delta) : f.delta[i].next \in f.Q

C17_Witness ==
    /\ mod.value = MaxMod
    /\ args = NoSpec
    /\ machine # NoMachine
    /\ Cardinality(built.Q) = MaxMod

\* ------------------------------------------------ properties: table builder
\* C18: from_spec(spec) ends as FiniteMachine(spec.Q, spec.Sigma, spec.q0,
\* spec.F, spec.delta) does on the same contents: a machine with equal fields
\* when the construction succeeds, the same error when it raises.
C18_FromSpecIsConstruction ==
    ((Accepted \/ Rejected) /\ mutated = {}) =>
        LET r == FiniteMachineNew(heap, args.Q, args.Sigma, args.q0, args.F,
                                  args.delta)
        IN IF r.error.kind = ""
           THEN Accepted /\ Fields(heap, machine) = Fields(r.heap, r.self)
           ELSE Rejected /\ error = r.error

C18_Witness ==
    /\ Rejected
    /\ error.kind = "delta must be total over QxSigma"
    /\ error.info.expected = 2
    /\ error.info.actual = 1

\* C19: from_spec leaves the fields of the spec as they were, and every later
\* mutation of the spec or of its containers leaves the machine's Q, Sigma,
\* q0, F and delta equal to their values at build time.
C19_MachineStableSpecUntouched ==
    [][/\ machine = NoMachine =>
             /\ args' = args
             /\ Fields(heap', args') = Fields(heap, args)
       /\ machine' # NoMachine => Fields(heap', machine') = built'
       /\ machine # NoMachine => machine' = machine /\ built' = built]_vars

C19_Witness ==
    /\ machine # NoMachine
    /\ mutated = {"Q", "Sigma", "F", "delta", "q0"}
    /\ Given.Q # built.Q
    /\ Given.Sigma # built.Sigma
    /\ Given.F # built.F
    /\ Given.q0 # built.q0
    /\ Given.delta # built.delta

\* ------------------------------------------------------- properties: step
\* C20: step(state, symbol) on a constructed machine returns
\* delta[(state, symbol)] for a state of Q and a symbol of Sigma, leaving the
\* machine as built, and for a symbol outside Sigma raises the invalid-symbol
\* error that carries the symbol and no position.
C20_StepReturnsTransition ==
    (pc = "done" /\ op = "step") =>
        LET f == Fields(heap, machine)
            symbol == input[1]
        IN /\ f = built
           /\ IF symbol \in f.Sigma
              THEN outcome = Returned(DeltaGet(f.delta, current, symbol))
              ELSE outcome = Outcome("ValueError", "invalid symbol", 0, 0,
                                     symbol)

\* ------------------------------------------------ properties: facade inputs
\* C21: for every string of "0" and "1", the empty string included, modThree
\* returns what the reference fold gives; for the empty string that is 0.
C21_EmptyStringIsZero ==
    \A t \in Threads :
        (/\ tpc[t] = "done"
         /\ targ[t].type = "str"
         /\ IsBinary(targ[t].chars)) =>
            tresult[t] = Returned(ReferenceModThree(targ[t].chars))

\* The position, from 1, of the first character of x that is not "0" or "1".
FirstNonBinary(x) ==
    CHOOSE i \in 1..Len(x) :
        /\ x[i] \notin {"0", "1"}
        /\ \A j \in 1..(i - 1) : x[j] \in {"0", "1"}

\* C22: for a string with a character other than "0" and "1", modThree raises
\* the error of run unchanged: it carries the zero-based position of the first
\* such character and the character, and no integer is returned.
C22_InvalidSymbolPreserved ==
    \A t \in Threads :
        (/\ tpc[t] = "done"
         /\ targ[t].type = "str"
         /\ ~IsBinary(targ[t].chars)) =>
            LET x == targ[t].chars
            IN tresult[t] = InvalidSymbol(FirstNonBinary(x) - 1,
                                          x[FirstNonBinary(x)])

C22_Witness ==
    \E t \in Threads :
        /\ tpc[t] = "done"
        /\ targ[t] = StrValue(<<"1", "2">>)
        /\ tresult[t] = InvalidSymbol(1, "2")

\* C23: a call with a value that is not a str ends with the type error
\* straight after the input check: it never reaches the lookup, a build or a
\* run, so calls rejected by the check alone leave the cache without a build.
C23_TypeCheckedFirst ==
    /\ \A t \in Threads :
          targ[t].type # "str" =>
              /\ tpc[t] \in {"require", "done"}
              /\ tmachine[t] = 0
              /\ tpc[t] = "done" =>
                     tresult[t] = Outcome("TypeError", "input must be str",
                                          0, 0, "")
    /\ epochPassed = 0 => epochBuilds = 0
    /\ (epochPassed = 0 /\ resets = 0) => instances = <<>> /\ cache = 0

C23_Witness ==
    \E t \in Threads :
        /\ tpc[t] = "done"
        /\ targ[t] = IntValue
        /\ tresult[t].kind = "TypeError"
        /\ calls = 2
        /\ instances = <<>>

\* -------------------------------------------------- properties: command line
\* The error modThree raises for a string it rejects.
ExpectedError(x) ==
    IF x = <<>> THEN Outcome("ValueError", "input must be non-empty", 0, 0, "")
    ELSE InvalidSymbol(FirstNonBinary(x) - 1, x[FirstNonBinary(x)])

\* A string modThree accepts.
ValidBinary(x) == x # <<>> /\ IsBinary(x)

\* C24: a run without the interactive flag ends in one of three ways: the
\* remainder on standard output, nothing on standard error and status 0 for a
\* valid binary argument; the error message on standard error, nothing on
\* standard output and status 1 for an argument modThree rejects; the usage
\* error on standard error, nothing on standard output and status 2, with no
\* call of modThree, when the argument is missing.
C24_SingleInvocationOutcomes ==
    ~argv.interactive =>
        LET v == argv.input_value
        IN IF cpc # "exited"
           THEN stdout = <<>> /\ stderr = <<>> /\ exitCode = -1
           ELSE IF v.type = "none"
           THEN /\ stdout = <<>>
                /\ stderr = <<UsageError>>
                /\ exitCode = 2
                /\ calls = 0
           ELSE IF ValidBinary(v.chars)
           THEN /\ stdout = <<IntToStr(ReferenceModThree(v.chars))>>
                /\ stderr = <<>>
                /\ exitCode = 0
           ELSE /\ stdout = <<>>
                /\ stderr = <<ExcMessage(ExpectedError(v.chars))>>
                /\ exitCode = 1

C24_Witness ==
    /\ ~argv.interactive
    /\ cpc = "exited"
    /\ argv.input_value = StrValue(<<"1", "0", "2", "1">>)
    /\ stderr = <<ExcMessage(InvalidSymbol(2, "2"))>>
    /\ exitCode = 1

\* C25: in interactive mode each evaluated line is reported by itself,
\* whatever came before: a valid binary line adds its remainder to standard
\* output, a rejected line adds its error to standard error, and in both cases
\* the loop goes on to the next read; the loop ends with status 0 only.
C25_LoopContinuesAfterError ==
    [][/\ (argv.interactive /\ cpc = "call" /\ cpc' # "call") =>
             LET x == targ[MainThread].chars
             IN /\ cpc' = "read"
                /\ exitCode' = -1
                /\ IF ValidBinary(x)
                   THEN /\ stdout' = Append(stdout,
                                            IntToStr(ReferenceModThree(x)))
                        /\ stderr' = stderr
                   ELSE /\ stdout' = stdout
                        /\ stderr' = Append(stderr,
                                            ExcMessage(ExpectedError(x)))
       /\ (argv.interactive /\ cpc' = "exited") => exitCode' = 0]_vars

C25_Witness ==
    /\ argv.interactive
    /\ cpc = "read"
    /\ stderr = <<ExcMessage(InvalidSymbol(1, "2"))>>
    /\ stdout = <<Prompt, Prompt, "0">>

\* What holds of the loop in every state: the loop has ended, with status 0,
\* exactly when the last read gave the end of the input or a line that is a
\* termination command once stripped and lowered, and the value given to
\* modThree is the stripped line just read, never a termination command.
LoopEndsOnCommand ==
    argv.interactive =>
        /\ cpc = "exited" <=>
               \/ lastRead.kind = "eof"
               \/ /\ lastRead.kind = "line"
                  /\ Lower(Strip(lastRead.chars)) \in ExitWords
        /\ cpc = "exited" => exitCode = 0
        /\ cpc = "call" =>
               /\ lastRead.kind = "line"
               /\ targ[MainThread] = StrValue(Strip(lastRead.chars))
               /\ Lower(targ[MainThread].chars) \notin ExitWords

\* C26: the loop ends with status 0 as soon as it reads a termination command
\* (exit, quit or q, stripped, in any case) or the input ends; that line is
\* never given to modThree; nothing is read or evaluated after it; and with a
\* finite input the loop does end.
C26_LoopTerminates ==
    /\ []LoopEndsOnCommand
    /\ [][cpc # "exited"]_vars
    /\ (argv.interactive => <>(cpc = "exited"))

C26_Witness ==
    /\ argv.interactive
    /\ cpc = "exited"
    /\ exitCode = 0
    /\ linesRead = 2
    /\ calls = 1
    /\ lastRead = LineRead(<<" ", "E", "x", "I", "T">>)

\* -------------------------------------------------- properties: immutability
\* C27: whatever calls of run and accepts have been made on a machine, and
\* however they ended, the machine's Q, Sigma, q0, F and delta are the values
\* they had when the construction returned, and the machine is the same object.
C27_MachineUnchangedByCalls ==
    /\ [](machine # NoMachine => Fields(heap, machine) = built)
    /\ [][machine # NoMachine => machine' = machine /\ built' = built]_vars

C27_Witness ==
    /\ machine # NoMachine
    /\ pc = "done"
    /\ op = "accepts"
    /\ outcome = InvalidSymbol(2, "2")
    /\ Cardinality(built.Q) = 2

\* ------------------------------------------- properties: totality diagnostic
\* What the claim says of the diagnostic for the definition f: the error says
\* "missing" with a non-empty set of pairs, never the size-mismatch fallback;
\* whatever the iteration orders, the list shown holds min(10, number of
\* missing pairs) distinct pairs of Q x Sigma that are no key of delta, and the
\* message is marked truncated exactly when more than 10 pairs are missing.
AccurateMissingList(f, e) ==
    LET n == Cardinality(Missing(f))
    IN /\ e.info.details = "missing"
       /\ e.info.missing = Missing(f)
       /\ n >= 1
       /\ e.info.truncated = (n > 10)
       /\ \A qo \in IterationOrders(f.Q), so \in IterationOrders(f.Sigma) :
             LET shown == MissingShownList(f, qo, so)
             IN /\ Len(shown) = (IF n > 10 THEN 10 ELSE n)
                /\ Len(shown) >= 1
                /\ \A i \in 1..Len(shown) :
                      /\ shown[i] \in f.Q \X f.Sigma
                      /\ ~DeltaHas(f.delta, shown[i][1], shown[i][2])
                      /\ \A j \in 1..Len(shown) : shown[i] = shown[j] => i = j
                /\ MissingTruncated(f, qo, so) = (n > 10)

\* An empty table over five, then six, states and two symbols: 10 missing
\* pairs are all shown and not marked truncated; of 12 missing pairs 10 are
\* shown and the message is marked truncated.
TenShownTwelveTruncated ==
    LET f10 == [Q |-> 0..4, Sigma |-> {"0", "1"}, q0 |-> 0, F |-> {0},
                delta |-> <<>>]
        f12 == [Q |-> 0..5, Sigma |-> {"0", "1"}, q0 |-> 0, F |-> {0},
                delta |-> <<>>]
    IN /\ AccurateMissingList(f10, ValidateDefinitionTotal(f10))
       /\ ~ValidateDefinitionTotal(f10).info.truncated
       /\ AccurateMissingList(f12, ValidateDefinitionTotal(f12))
       /\ ValidateDefinitionTotal(f12).info.truncated

\* C28: when a construction fails the totality check, the missing list of the
\* diagnostic is accurate (non-empty, only pairs of Q x Sigma without a key,
\* min(10, missing) of them, truncated iff more than 10 are missing) and the
\* size-mismatch fallback without a missing pair is never reported.
C28_MissingListAccurate ==
    /\ (Rejected /\ mutated = {}
        /\ error.kind = "delta must be total over QxSigma") =>
           AccurateMissingList(Given, error)
    /\ TenShownTwelveTruncated

C28_Witness ==
    /\ Rejected
    /\ error.kind = "delta must be total over QxSigma"
    /\ Cardinality(error.info.missing) = 3
    /\ Len(Given.delta) = 1

\* ----------------------------------------------------- properties: the fold
\* The sequence x holds symbols of Sigma only.
OverSigma(f, x) == \A i \in 1..Len(x) : x[i] \in f.Sigma

Held ==
    Fields(heap, [Q |-> Locals.states, Sigma |-> Locals.symbols,
                  q0 |-> args.q0, F |-> Locals.accepting_states,
                  delta |-> Locals.transitions])

\* The step is a call of from_spec: it returns a machine or raises.
BuildStep ==
    /\ args # NoSpec
    /\ machine = NoMachine
    /\ machine' # NoMachine \/ error' # error

\* C30: DeterministicMachineSpec accepts every definition, well formed or not,
\* and its fields are the caller's containers themselves, so that what the
\* spec holds is always what the containers hold; from_spec accepts or rejects
\* the contents the containers have at the call (with the error FiniteMachine
\* raises for them), a rejection therefore meaning that they are ill formed at
\* that moment whatever they were when the spec was made; the machine built
\* has exactly those contents, and keeps them under every later mutation.
C30_SpecReadAtBuild ==
    /\ [](args # NoSpec =>
             /\ args.Q = Locals.states
             /\ args.Sigma = Locals.symbols
             /\ args.F = Locals.accepting_states
             /\ args.delta = Locals.transitions
             /\ Given = Held)
    /\ [][(args = NoSpec /\ args' # NoSpec) =>
             /\ error' = NoError
             /\ heap' = heap
             /\ created' = Given']_vars
    /\ [][BuildStep =>
             LET r == FiniteMachineNew(heap, Locals.states, Locals.symbols,
                          args.q0, Locals.accepting_states,
                          Locals.transitions)
             IN /\ args' = args
                /\ Given' = Given
                /\ IF WellFormed(Held)
                   THEN /\ machine' # NoMachine
                        /\ error' = NoError
                        /\ built' = Held
                        /\ Fields(heap', machine') = Held
                   ELSE /\ machine' = NoMachine
                        /\ error' = r.error
                        /\ error'.kind # ""]_vars
    /\ [](Rejected => ~WellFormed(Held))
    /\ [](Accepted => WellFormed(built) /\ Fields(heap, machine) = built)
    /\ [][machine # NoMachine => machine' = machine /\ built' = built]_vars

C30_Witness ==
    /\ Accepted
    /\ ~WellFormed(created)
    /\ mutated = {"before", "F", "q0"}
    /\ built # created
    /\ Given # built
    /\ Given.F # built.F
    /\ Given.q0 # built.q0

\* -------------------------------------------- properties: run after run
\* C31: run keeps nothing between calls. Whatever the call before returned or
\* raised, a call of run begins in q0 at index 0, ends with the outcome that
\* the machine as built gives to its input alone (the final state, or the
\* invalid-symbol error with its index and symbol), and leaves the machine
\* as built, after a failure as after a return.
C31_RunKeepsNoState ==
    machine # NoMachine =>
        /\ Fields(heap, machine) = built
        /\ (pc = "loop" /\ index = 0) => current = built.q0
        /\ pc = "loop" =>
               RunFrom(built, current, index, input) = Run(built, input)
        /\ pc = "done" =>
               /\ outcome = Run(built, input)
               /\ outcome.kind \in {"returned", "ValueError"}
               /\ outcome.kind = "ValueError" =>
                      /\ outcome.index = FirstInvalid(built, input)
                      /\ outcome.symbol = input[outcome.index + 1]

C31_Witness ==
    /\ machine # NoMachine
    /\ pc = "done"
    /\ previous.kind = "ValueError"
    /\ previous.index > 0
    /\ outcome.kind = "returned"
    /\ Len(input) = MaxRerun
    /\ outcome.state # built.q0

\* ------------------------------------------- properties: failing calls
\* The step ends the call of t with an exception.
Fails(t) ==
    /\ tpc[t] # "done"
    /\ tpc'[t] = "done"
    /\ tresult'[t].kind # "returned"

\* C32: a failing modThree call leaves the cache alone. The step in which a
\* call raises (the type error, the empty-input error or the invalid-symbol
\* error) changes neither the cache nor the machines nor their objects; a
\* filled cache is emptied or changed by cache_clear only; a build happens
\* only on an empty cache, at most once between resets; and a call with a
\* non-empty string of "0" and "1" returns the value of the string modulo 3,
\* whatever the call before it returned or raised.
C32_FailureLeavesCache ==
    /\ [][\A t \in Threads :
             Fails(t) =>
                 /\ cache' = cache
                 /\ instances' = instances
                 /\ heap' = heap]_vars
    /\ [][(cache # 0 /\ resets' = resets) =>
             /\ cache' = cache
             /\ instances' = instances
             /\ heap' = heap]_vars
    /\ [](/\ epochBuilds <= 1
          /\ \A t \in Threads :
                 /\ tpc[t] = "build" => cache = 0
                 /\ tpc[t] = "run" => tmachine[t] = cache /\ cache # 0
                 /\ (/\ tpc[t] = "done"
                     /\ targ[t].type = "str"
                     /\ targ[t].chars # <<>>
                     /\ IsBinary(targ[t].chars)) =>
                        tresult[t] = Returned(BinaryValue(targ[t].chars) % 3))

C32_Witness ==
    \E t \in Threads :
        /\ tpc[t] = "done"
        /\ tresult[t] = Returned(2)
        /\ previous.kind = "ValueError"
        /\ previous.msg = "invalid symbol at index"
        /\ previous.index > 0
        /\ resets = 0
        /\ calls = MaxCalls
        /\ epochBuilds = 1
        /\ Len(instances) = 1
        /\ cache = 1

====
